---- MODULE Spec2Model ----
(***************************************************************************)
(* Fit Twin: body measurements from two photos and a proportional 3D      *)
(* mannequin.  The module models                                           *)
(*   - BodyVisualizer (components/BodyVisualizer.tsx): the build effect,   *)
(*     its cleanup, the animation loop and the exporters' input;           *)
(*   - StatsForm.handleSubmit / toggleUnitSystem;                          *)
(*   - analyzeBodyMeasurements (services/geminiService.ts);                *)
(*   - the App step machine and saveScanResult's main record.              *)
(*                                                                         *)
(* Numbers.  JavaScript numbers are modelled in fixed point: every length  *)
(* (heights, circumferences, radii, positions) is an integer count of      *)
(* 1/10000 cm, so Cm(38) is 38 cm.  Angles are in milliradians.  Ratios    *)
(* (cm per pixel, pixels per cm) are integer counts of 1/10000.            *)
(***************************************************************************)
EXTENDS Integers, Sequences, FiniteSets, TLC

VARIABLES
    \* ---- BodyVisualizer ----
    vMounted,        \* the component is mounted (containerRef.current is set)
    props,           \* <<>> or <<[m, h]>>: the props of the last render
    builds,          \* number of times the build effect has run
    groupRef,        \* groupRef.current: 0 (null) or the build that made the group
    group,           \* the object groupRef.current points at
    rendererRef,     \* rendererRef.current: 0 (null) or the build that made it
    liveRenderers,   \* renderers created and not disposed
    animationLoops,  \* builds whose animate() has a frame request pending
    containerCanvas, \* the canvases that are children of the container div
    exported,        \* <<>> or <<blob>>: the last geometry handed to an exporter
    \* ---- StatsForm ----
    unitSystem,      \* "metric" or "imperial"
    heightCm,        \* text of the cm input: <<>> when empty, else <<number>>
    heightFt,        \* text of the ft input
    heightIn,        \* text of the in input
    toggles,         \* number of presses of the unit toggle
    submitted,       \* <<>> or <<stats>>: the last argument given to onNext
    \* ---- App ----
    step,            \* AppStep
    stats,           \* <<>> (null) or <<UserStats>>
    frontImage,      \* <<>> (null) or <<image>>
    frontMeta,       \* <<>> (null) or <<capture method>>
    sideImage,       \* <<>> (null) or <<image>>
    results,         \* <<>> (null) or <<MeasurementResult>>
    loading,
    pending,         \* the calls of analyzeBodyMeasurements not yet settled
    analyses,        \* number of calls of handleSideCapture so far
    lastAnalysis,    \* <<>> or how the last finished handleSideCapture ended
    apiKey,          \* getApiKey() finds a key
    \* ---- ResultsView and the database ----
    supabase,        \* <<>> (null) or <<[url, key]>>: the client and what it was created with
    user,            \* <<>> or <<id>>: the signed in user of the session
    isLoggedIn,
    showAuth,
    saveStatus,
    checkUserPending,        \* checkUser() of the mounted ResultsView awaits getUser()
    measurements,            \* rows of table measurements
    measurementImages,       \* rows of table measurement_images
    measurementCalculations, \* rows of table measurement_calculations
    saves,                   \* number of scan ids generated
    lastSave,                \* <<>> or <<what the last call of saveScanResult did and returned>>
    \* ---- the database server ----
    schema,          \* which of the shipped schema scripts was run on the project
    scans,           \* <<>> or <<[by, rows]>>: what the last getScans() returned, and to whom
    \* ---- the configuration of the client ----
    env,             \* [url, key]: what getSupabaseConfig() finds in the environment variables
    storageAvailable,        \* isStorageAvailable(): localStorage is writable
    stored,          \* <<>> or <<item>>: the localStorage item fit_twin_supabase_config
    lastInit,        \* <<>> or <<[version, before, after, returned]>>: the last call of initSupabase
    \* ---- geminiService ----
    lastCall,        \* <<>> or <<the last call of analyzeBodyMeasurements and how it settled>>
    \* ---- CameraCapture (one instance) ----
    cameraLife,      \* "new", "mounted" (isMountedRef.current) or "unmounted"
    captureMethod,   \* 'camera' or 'upload'
    facingMode,      \* 'environment' or 'user'
    cameraError,     \* error !== null
    countdown,       \* <<>> (null) or <<n>>
    sequenceStartedRef,      \* sequenceStartedRef.current
    sequences,       \* the started capture sequences that still have a callback pending
    sequencesStarted,        \* number of capture sequences started so far
    captureTimers,   \* the sequences whose photo waits 400 ms for its onCapture
    onCaptureCalls,  \* the calls of props.onCapture so far
    streamRef,       \* streamRef.current: 0 (null) or a stream
    liveStreams,     \* the acquired MediaStreams whose tracks are not stopped
    mediaRequests,   \* the startCamera calls that wait for getUserMedia or applyConstraints
    cameraStarts     \* number of startCamera calls that asked for a stream

visualizerVars == <<vMounted, props, builds, groupRef, group, rendererRef, liveRenderers,
                    animationLoops, containerCanvas, exported>>
formVars == <<unitSystem, heightCm, heightFt, heightIn, toggles, submitted>>
appVars == <<step, stats, frontImage, frontMeta, sideImage, results, loading, pending,
             analyses, lastAnalysis, apiKey>>
resultsViewVars == <<isLoggedIn, showAuth, saveStatus, checkUserPending>>
dbVars == <<supabase, user, measurements, measurementImages, measurementCalculations, saves,
            lastSave>>
serverVars == <<schema, scans>>
configVars == <<env, storageAvailable, stored, lastInit>>
geminiVars == <<lastCall>>
cameraVars == <<cameraLife, captureMethod, facingMode, cameraError, countdown,
                sequenceStartedRef, sequences, sequencesStarted, captureTimers, onCaptureCalls,
                streamRef, liveStreams, mediaRequests, cameraStarts>>
notCamera == <<visualizerVars, formVars, appVars, resultsViewVars, dbVars, serverVars,
               configVars, geminiVars>>
vars == <<visualizerVars, formVars, appVars, resultsViewVars, dbVars, serverVars, configVars,
          geminiVars, cameraVars>>
\* everything outside BodyVisualizer, and everything outside StatsForm
notVisualizer == <<formVars, appVars, resultsViewVars, dbVars, serverVars, configVars,
                   geminiVars, cameraVars>>
notForm == <<visualizerVars, appVars, resultsViewVars, dbVars, serverVars, configVars,
             geminiVars, cameraVars>>

----------------------------------------------------------------------------
(* Bounds of the model *)

\* how many fields of one input may deviate from the two reference results
MaxOdd == 2
\* how many times the build effect may run
MaxBuilds == 3
\* how many fields the results of the lifecycle runs may lack
MaxMissing == 1
\* how many times the unit toggle of the form may be pressed
MaxToggles == 2
\* how many analyses one run of the App starts
MaxAnalyses == 1
\* how many scans one run of the App saves
MaxSaves == 1
\* how many animation frames are followed per build (after the first one)
MaxFrames == 2
\* how many rows the table measurements holds when it is queried directly
MaxRows == 2
\* how many times one CameraCapture asks for a camera stream, and how many
\* capture sequences it starts
MaxCameraStarts == 2
MaxSequences == 2

----------------------------------------------------------------------------
(* Fixed point arithmetic *)

\* an optional value: absent, or present with a value
Some(x) == << x >>
None == << >>

Cm(x) == x * 10000

\* x * (n / d) for a positive d, as the float product rounded down
Times(x, n, d) == (x * n) \div d

Abs(x) == IF x < 0 THEN -x ELSE x

----------------------------------------------------------------------------
(* MeasurementResult: a function from the fields a result carries to their *)
(* values; a field that is absent (undefined) is not in the domain.        *)

Fields == {"neck", "shoulder", "chest", "waist", "hips", "thigh", "calf",
           "ankle", "inseam", "bicep", "wrist", "sleeve"}

\* circumference fields and linear fields of a result
Circumferences == {"neck", "chest", "waist", "hips", "thigh", "calf", "ankle",
                   "bicep", "wrist"}

MOCK_MEASUREMENT_RESULT ==
    [neck |-> Cm(39), shoulder |-> Cm(46), chest |-> Cm(102), waist |-> Cm(85),
     hips |-> Cm(98), thigh |-> Cm(58), calf |-> Cm(39), ankle |-> Cm(26),
     inseam |-> Cm(81), bicep |-> Cm(34), wrist |-> Cm(17), sleeve |-> Cm(62)]

\* a second complete result, a smaller subject
ALT_MEASUREMENT_RESULT ==
    [neck |-> Cm(34), shoulder |-> Cm(40), chest |-> Cm(88), waist |-> Cm(70),
     hips |-> Cm(92), thigh |-> Cm(52), calf |-> Cm(35), ankle |-> Cm(22),
     inseam |-> Cm(75), bicep |-> Cm(28), wrist |-> Cm(15), sleeve |-> Cm(58)]

\* what a deviating field may be: undefined, 0, a negative number, or the
\* value of the other reference result
OddKinds == {"absent", "zero", "negative", "alt"}

Deviate(base, other, S, g) ==
    [f \in {x \in Fields : ~(x \in S /\ g[x] = "absent")} |->
        IF f \notin S THEN base[f]
        ELSE IF g[f] = "zero" THEN 0
        ELSE IF g[f] = "negative" THEN -(base[f] \div 10)
        ELSE other[f]]

\* the results given to the mesh builder: a reference result with at most
\* MaxOdd fields deviating, and results that keep at most MaxOdd fields
MeasurementInputs ==
    UNION { { Deviate(MOCK_MEASUREMENT_RESULT, ALT_MEASUREMENT_RESULT, S, g) :
                g \in [S -> OddKinds] } :
            S \in {T \in SUBSET Fields : Cardinality(T) <= MaxOdd} }
    \cup { [f \in S |-> ALT_MEASUREMENT_RESULT[f]] :
            S \in {T \in SUBSET Fields : Cardinality(T) <= MaxOdd} }

\* stats.height values given to the mesh builder
HeightInputs == {Cm(150), Cm(176), 1752600, Cm(190)}

----------------------------------------------------------------------------
(* BodyVisualizer: the build effect (BodyVisualizer.tsx 173-316) *)

\* measurements.f || d
OrDefaultWithoutFallback(m, f, d) == IF f \in DOMAIN m THEN m[f] ELSE 0
OrDefault(m, f, d) == IF f \in DOMAIN m /\ m[f] # 0 THEN m[f] ELSE d

\* c / (2 * Math.PI), with 355/113 for Math.PI (relative error below 1e-7)
RadiusOfDividesByPi(c) == (c * 113) \div 355
RadiusOf(c) == (c * 113) \div 710

\* a scene object: a mesh with its geometry, or a group.  parent is the
\* index of the parent in the sequence of objects, 0 for mannequinGroup.
Node(name, kind, parent, x, y, rotZ, rTop, rBot, len) ==
    [name |-> name, kind |-> kind, parent |-> parent, x |-> x, y |-> y,
     rotZ |-> rotZ, rTop |-> rTop, rBot |-> rBot, len |-> len]

Sphere(name, parent, x, y, r) == Node(name, "sphere", parent, x, y, 0, r, r, 2 * r)
Cylinder(name, parent, x, y, rotZ, rTop, rBot, len) ==
    Node(name, "cylinder", parent, x, y, rotZ, rTop, rBot, len)
Group(name, parent, x, y, rotZ) == Node(name, "group", parent, x, y, rotZ, 0, 0, 0)

headRadius == Cm(12)
neckHeight == Cm(10)
chestHeight == Cm(25)
waistHeight == Cm(15)
hipHeight == Cm(20)
yokeRadius == Cm(6)

\* the objects createLeg(xDir) adds
createLeg(xDir, hipY, legRadius, calfRadius, ankleRadius, legLength, legSpacing) ==
    LET thighLen == Times(legLength, 5, 10)
        thighY == hipY - (hipHeight \div 2) - (thighLen \div 2)
        kneeY == thighY - (thighLen \div 2)
        shinLen == Times(legLength, 5, 10)
        shinY == kneeY - (shinLen \div 2)
    IN  << Cylinder("thigh", 0, xDir * legSpacing, thighY, 0,
                    legRadius, Times(calfRadius, 11, 10), thighLen),
           Sphere("knee", 0, xDir * legSpacing, kneeY, Times(calfRadius, 11, 10)),
           Cylinder("shin", 0, xDir * legSpacing, shinY, 0,
                    Times(calfRadius, 11, 10), ankleRadius, shinLen) >>

\* createArm with the forearm group added to the root instead of the arm
createArmForearmOnRoot(xDir, base, shoulderWidth, shoulderY, armRadius, forearmRadius, armLength) ==
    LET startX == (xDir * shoulderWidth) \div 2
        upperLen == Times(armLength, 45, 100)
        lowerLen == Times(armLength, 55, 100)
    IN  << Group("upperGroup", 0, startX, shoulderY, -300 * xDir),
           Cylinder("upperArm", base + 1, 0, -(upperLen \div 2), 0,
                    armRadius, Times(armRadius, 8, 10), upperLen),
           Group("lowerGroup", 0, 0, -upperLen, -100 * xDir),
           Cylinder("lowerArm", base + 3, 0, -(lowerLen \div 2), 0,
                    Times(armRadius, 8, 10), forearmRadius, lowerLen) >>

\* the objects createArm(xDir) adds; base is the number of objects before it
createArm(xDir, base, shoulderWidth, shoulderY, armRadius, forearmRadius, armLength) ==
    LET startX == (xDir * shoulderWidth) \div 2
        startY == shoulderY
        upperLen == Times(armLength, 45, 100)
        angle == 300 * xDir
        lowerLen == Times(armLength, 55, 100)
        elbowY == -upperLen
    IN  << Group("upperGroup", 0, startX, startY, -angle),
           Cylinder("upperArm", base + 1, 0, -(upperLen \div 2), 0,
                    armRadius, Times(armRadius, 8, 10), upperLen),
           Group("lowerGroup", base + 1, 0, elbowY, -100 * xDir),
           Cylinder("lowerArm", base + 3, 0, -(lowerLen \div 2), 0,
                    Times(armRadius, 8, 10), forearmRadius, lowerLen) >>

\* forearmRadius = (measurements.wrist || 17) / (2 * Math.PI) * 1.5
forearmRadiusOf(m) == Times(RadiusOf(OrDefault(m, "wrist", Cm(17))), 15, 10)

\* every object the build effect adds under mannequinGroup, in order
BuildMannequin(m, h) ==
    LET headY == h - headRadius
        neckRadius == RadiusOf(OrDefault(m, "neck", Cm(38)))
        neckY == headY - headRadius - (neckHeight \div 2) + Cm(2)
        shoulderWidth == OrDefault(m, "shoulder", Cm(45))
        shoulderY == neckY - (neckHeight \div 2) - Cm(2)
        chestRadius == RadiusOf(OrDefault(m, "chest", Cm(100)))
        chestY == shoulderY - Cm(10)
        waistRadius == RadiusOf(OrDefault(m, "waist", Cm(80)))
        waistY == chestY - (chestHeight \div 2) - (waistHeight \div 2)
        hipRadius == RadiusOf(OrDefault(m, "hips", Cm(95)))
        hipY == waistY - (waistHeight \div 2) - (hipHeight \div 2)
        legRadius == RadiusOf(OrDefault(m, "thigh", Cm(55)))
        calfRadius == RadiusOf(OrDefault(m, "calf", Cm(38)))
        ankleRadius == RadiusOf(OrDefault(m, "ankle", Cm(25)))
        legLength == OrDefault(m, "inseam", Cm(75))
        legSpacing == Times(hipRadius, 8, 10)
        armRadius == RadiusOf(OrDefault(m, "bicep", Cm(35)))
        forearmRadius == forearmRadiusOf(m)
        armLength == OrDefault(m, "sleeve", Cm(60))
        torso ==
            << Sphere("head", 0, 0, headY, headRadius),
               Cylinder("neck", 0, 0, neckY, 0, neckRadius, neckRadius, neckHeight),
               Cylinder("shoulder_yoke", 0, 0, shoulderY, 1571,
                        yokeRadius, yokeRadius, shoulderWidth),
               Cylinder("chest", 0, 0, chestY, 0, Times(chestRadius, 11, 10),
                        Times(chestRadius, 9, 10), chestHeight),
               Cylinder("waist", 0, 0, waistY, 0, Times(chestRadius, 9, 10),
                        waistRadius, waistHeight),
               Cylinder("hips", 0, 0, hipY, 0, waistRadius, hipRadius, hipHeight) >>
        legs == createLeg(1, hipY, legRadius, calfRadius, ankleRadius, legLength, legSpacing)
                \o createLeg(-1, hipY, legRadius, calfRadius, ankleRadius, legLength, legSpacing)
        rightArm == createArm(1, Len(torso) + Len(legs), shoulderWidth, shoulderY,
                              armRadius, forearmRadius, armLength)
        leftArm == createArm(-1, Len(torso) + Len(legs) + Len(rightArm), shoulderWidth,
                             shoulderY, armRadius, forearmRadius, armLength)
    IN  torso \o legs \o rightArm \o leftArm

----------------------------------------------------------------------------
(* BodyVisualizer: the component's lifecycle *)

\* the cleanup the effect returns (BodyVisualizer.tsx 333-339), for the
\* effect run b: cancelAnimationFrame(animationId), container.innerHTML = '',
\* renderer.dispose()
CleanupLoopsForgetsCancel(b) == animationLoops
CleanupLoops(b) == animationLoops \ {b}
CleanupCanvas(b) == {}
CleanupRenderers(b) == liveRenderers \ {b}

\* the object the effect stores in groupRef.current; animate() runs once
\* inside the effect, so the group leaves the effect one rotation step on
NewGroup(b, m, h) == [build |-> b, rotationTicks |-> 1, children |-> BuildMannequin(m, h)]

\* the effect body (BodyVisualizer.tsx 138-330), run with the loops, canvases
\* and renderers the preceding cleanup (if any) left
RunEffect(m, h, loops, canvases, renderers) ==
    /\ builds < MaxBuilds
    /\ builds' = builds + 1
    /\ props' = << [m |-> m, h |-> h] >>
    /\ rendererRef' = builds + 1
    /\ liveRenderers' = renderers \cup {builds + 1}
    /\ containerCanvas' = {builds + 1}
    /\ groupRef' = builds + 1
    /\ group' = NewGroup(builds + 1, m, h)
    /\ animationLoops' = loops \cup {builds + 1}

\* first render of the component with props (measurements, stats)
Mount(m, h) ==
    /\ ~vMounted
    /\ vMounted' = TRUE
    /\ RunEffect(m, h, animationLoops, containerCanvas, liveRenderers)
    /\ UNCHANGED <<exported, notVisualizer>>

\* a render with a new measurements or stats object: React runs the previous
\* effect's cleanup, then the effect (dependency list [measurements, stats])
PropsChange(m, h) ==
    /\ vMounted
    /\ RunEffect(m, h, CleanupLoops(builds), CleanupCanvas(builds), CleanupRenderers(builds))
    /\ UNCHANGED <<vMounted, exported, notVisualizer>>

\* one call of animate() by the browser for the loop of effect run b
\* (BodyVisualizer.tsx 325-329): request the next frame, turn the group the
\* closure holds, render
animate(b) ==
    /\ b \in animationLoops
    /\ b = group.build
    /\ group.rotationTicks <= MaxFrames
    /\ group' = [group EXCEPT !.rotationTicks = @ + 1]
    /\ UNCHANGED <<vMounted, props, builds, groupRef, rendererRef, liveRenderers,
                   animationLoops, containerCanvas, exported, notVisualizer>>

\* generateOBJ / generateUSDZ / generateGLB / generateSTL (BodyVisualizer.tsx
\* 34-77): null without a group, else the exporter is handed groupRef.current,
\* the root group in its present rotation
ExportOf(g) == [build |-> g.build, rotationTicks |-> g.rotationTicks]

generateOBJ ==
    /\ vMounted
    /\ exported' = IF groupRef = 0 THEN <<>> ELSE << ExportOf(group) >>
    /\ UNCHANGED <<vMounted, props, builds, groupRef, group, rendererRef, liveRenderers,
                   animationLoops, containerCanvas, notVisualizer>>

\* the component is removed: the last effect's cleanup runs and the
\* instance, with its refs, is gone
Unmount ==
    /\ vMounted
    /\ vMounted' = FALSE
    /\ animationLoops' = CleanupLoops(builds)
    /\ containerCanvas' = CleanupCanvas(builds)
    /\ liveRenderers' = CleanupRenderers(builds)
    /\ groupRef' = 0
    /\ rendererRef' = 0
    /\ props' = <<>>
    /\ UNCHANGED <<builds, group, exported, notVisualizer>>

NoGroup == [build |-> 0, rotationTicks |-> 0, children |-> <<>>]

InitVisualizer ==
    /\ vMounted = FALSE
    /\ props = <<>>
    /\ builds = 0
    /\ groupRef = 0
    /\ group = NoGroup
    /\ rendererRef = 0
    /\ liveRenderers = {}
    /\ animationLoops = {}
    /\ containerCanvas = {}
    /\ exported = <<>>

----------------------------------------------------------------------------
(* StatsForm (components/StatsForm.tsx) *)

\* The inputs are type="number": their text is empty or a number.  The
\* weight, age and gender inputs are left at their initial (empty) values.

\* parseFloat(text) || 0
parseFloatOr0(t) == IF t = <<>> THEN 0 ELSE t[1]

\* Math.trunc(a / b) and Math.round(a / b) for b > 0
TruncDiv(a, b) == IF a >= 0 THEN a \div b ELSE -((-a) \div b)
RoundDiv(a, b) == (2 * a + b) \div (2 * b)

\* what the user may type
TypedCm == {<<>>, <<0>>, <<150>>, <<175>>}
TypedFt == {<<>>, <<0>>, <<5>>, <<6>>}
TypedIn == {<<>>, <<0>>, <<9>>, <<-3>>}

InitForm ==
    /\ unitSystem = "imperial"
    /\ heightCm = <<175>>
    /\ heightFt = <<5>>
    /\ heightIn = <<9>>
    /\ toggles = 0
    /\ submitted = <<>>

setHeightCm(t) ==
    /\ unitSystem = "metric"
    /\ heightCm' = t
    /\ UNCHANGED <<unitSystem, heightFt, heightIn, toggles, submitted, notForm>>

setHeightFt(t) ==
    /\ unitSystem = "imperial"
    /\ heightFt' = t
    /\ UNCHANGED <<unitSystem, heightCm, heightIn, toggles, submitted, notForm>>

setHeightIn(t) ==
    /\ unitSystem = "imperial"
    /\ heightIn' = t
    /\ UNCHANGED <<unitSystem, heightCm, heightFt, toggles, submitted, notForm>>

\* toggleUnitSystem (StatsForm.tsx 25-59); 1 in = 2.54 cm, so
\* totalInches = cm * 50 / 127 and totalInches / 12 = cm * 50 / 1524
toggleUnitSystem ==
    /\ toggles < MaxToggles
    /\ toggles' = toggles + 1
    /\ IF unitSystem = "metric"
       THEN LET cm == parseFloatOr0(heightCm)
                ft == (cm * 50) \div 1524
                rem == cm * 50 - 1524 * TruncDiv(cm * 50, 1524)
                inches == RoundDiv(rem, 127)
            IN  /\ heightFt' = <<ft>>
                /\ heightIn' = <<inches>>
                /\ unitSystem' = "imperial"
                /\ UNCHANGED heightCm
       ELSE LET ft == parseFloatOr0(heightFt)
                inches == parseFloatOr0(heightIn)
            IN  /\ heightCm' = << RoundDiv(((ft * 12) + inches) * 254, 100) >>
                /\ unitSystem' = "metric"
                /\ UNCHANGED <<heightFt, heightIn>>
    /\ UNCHANGED <<submitted, notForm>>

\* the browser submits the form only when every rendered required input is
\* filled in (StatsForm.tsx 117, 128, 139)
FormValid(u, cm, ft, inch) ==
    IF u = "metric" THEN cm # <<>> ELSE ft # <<>> /\ inch # <<>>

\* finalHeight of handleSubmit (StatsForm.tsx 64-75), in 1/10000 cm
finalHeight(u, cm, ft, inch) ==
    IF u = "metric" THEN Cm(cm[1])
    ELSE ((parseFloatOr0(ft) * 12) + parseFloatOr0(inch)) * 25400

\* the UserStats handleSubmit passes to onNext (StatsForm.tsx 77-83)
StatsOf(u, cm, ft, inch) == [height |-> finalHeight(u, cm, ft, inch), unitSystem |-> u]

handleSubmit ==
    /\ FormValid(unitSystem, heightCm, heightFt, heightIn)
    /\ submitted' = << StatsOf(unitSystem, heightCm, heightFt, heightIn) >>
    /\ UNCHANGED <<unitSystem, heightCm, heightFt, heightIn, toggles, notForm>>

----------------------------------------------------------------------------
(* The Supabase client and its configuration (services/supabaseService.ts 1-127) *)

\* what a URL or key setting can hold: nothing, a usable value, and for the
\* URL a value createClient rejects
UrlSettings == {"", "https://project.supabase.co", "not a url"}
KeySettings == {"", "anon-key"}
Config(url, key) == [url |-> url, key |-> key]

\* createClient(url, key) of supabase-js: throws without a URL or key and on
\* a URL it cannot parse, else returns a client
createClientThrows(url, key) == url \in {"", "not a url"} \/ key = ""
createClient(url, key) == Some(Config(url, key))

\* the localStorage item: absent, JSON.stringify({url, key}), or a string
\* JSON.parse rejects
StoredConfig(url, key) == [parses |-> TRUE, url |-> url, key |-> key]
StoredGarbage == [parses |-> FALSE, url |-> "", key |-> ""]
StoredItems ==
    {None, Some(StoredGarbage)}
        \cup {Some(StoredConfig(url, key)) :
                 url \in {u \in UrlSettings : ~createClientThrows(u, "anon-key")},
                 key \in KeySettings \ {""}}

isSupabaseConnected == supabase # None

\* initSupabase (supabaseService.ts 52-97) as the pair of the client it
\* leaves and the value it returns. A throw of createClient on the
\* environment values is caught by the outer try, one on the stored values
\* by the inner try; neither is followed by another attempt.
initSupabase(e, avail, item, client) ==
    IF e.url # "" /\ e.key # ""
    THEN IF createClientThrows(e.url, e.key)
         THEN [client |-> client, returned |-> FALSE]
         ELSE [client |-> createClient(e.url, e.key), returned |-> TRUE]
    ELSE IF /\ avail
            /\ item # None
            /\ item[1].parses
            /\ item[1].url # "" /\ item[1].key # ""
            /\ ~createClientThrows(item[1].url, item[1].key)
         THEN [client |-> createClient(item[1].url, item[1].key), returned |-> TRUE]
         ELSE [client |-> client, returned |-> FALSE]

\* initSupabase of the other version of the service (unnamed/part_004
\* 72-125): with no configuration found it returns true when a client exists
initSupabase_part_004(e, avail, item, client) ==
    IF e.url # "" /\ e.key # ""
    THEN IF createClientThrows(e.url, e.key)
         THEN [client |-> client, returned |-> FALSE]
         ELSE [client |-> createClient(e.url, e.key), returned |-> TRUE]
    ELSE IF /\ avail
            /\ item # None
            /\ item[1].parses
            /\ item[1].url # "" /\ item[1].key # ""
            /\ ~createClientThrows(item[1].url, item[1].key)
         THEN [client |-> createClient(item[1].url, item[1].key), returned |-> TRUE]
         ELSE [client |-> client, returned |-> client # None]

\* the environments a run starts in: nothing configured, or a deployment
\* with both environment variables
Environment(e, avail, item) == [env |-> e, storageAvailable |-> avail, stored |-> item]
Environments ==
    { Environment(Config("", ""), TRUE, None),
      Environment(Config("https://project.supabase.co", "anon-key"), TRUE, None) }
AllEnvironments ==
    { Environment(Config(url, key), avail, item) :
        url \in UrlSettings, key \in KeySettings, avail \in BOOLEAN, item \in StoredItems }

\* the module is loaded: initSupabase() runs once (supabaseService.ts 176)
InitClient(E) ==
    \E c \in E :
        /\ env = c.env
        /\ storageAvailable = c.storageAvailable
        /\ stored = c.stored
        /\ supabase = initSupabase(c.env, c.storageAvailable, c.stored, None).client
        /\ lastInit = None

\* the schema scripts the repository ships: the two of supabase_setup.sql and
\* the one SettingsModal offers for the SQL editor
Schemas == {"supabase_setup", "supabase_setup_enhanced", "settings_modal"}

\* the sessions that talk to the database: anonymous (auth.uid() is null) or
\* a signed in user
Users == {"user-1", "user-2"}
Sessions == {None} \cup {Some(u) : u \in Users}

\* auth.uid() = user_id in SQL: null on either side is not true
UidIsOwner(uid, row) == uid # None /\ row.user_id = uid

\* the SELECT policies on public.measurements; row level security is enabled
\* in all three scripts, so a row is returned only if a policy admits it
SelectPolicy(sch, uid, row) ==
    CASE sch = "supabase_setup" -> UidIsOwner(uid, row)
      [] sch = "supabase_setup_enhanced" -> UidIsOwner(uid, row)
      [] sch = "settings_modal" -> TRUE

\* the INSERT policies on public.measurements
InsertPolicy(sch, uid, row) ==
    CASE sch = "supabase_setup" -> TRUE
      [] sch = "supabase_setup_enhanced" -> UidIsOwner(uid, row)
      [] sch = "settings_modal" -> TRUE

\* the state after App is constructed (INTEGRATION_NOTE 285-292), with the
\* environment either configured or not
InitGemini == lastCall = None

\* CameraCapture before its first render (CameraCapture.tsx 23-41)
InitCamera ==
    /\ cameraLife = "new"
    /\ captureMethod = "camera"
    /\ facingMode = "environment"
    /\ cameraError = FALSE
    /\ countdown = None
    /\ sequenceStartedRef = FALSE
    /\ sequences = {}
    /\ sequencesStarted = 0
    /\ captureTimers = {}
    /\ onCaptureCalls = << >>
    /\ streamRef = 0
    /\ liveStreams = {}
    /\ mediaRequests = {}
    /\ cameraStarts = 0

InitApp ==
    /\ step = "Intro"
    /\ stats = None
    /\ frontImage = None
    /\ frontMeta = None
    /\ sideImage = None
    /\ results = None
    /\ loading = FALSE
    /\ pending = {}
    /\ analyses = 0
    /\ lastAnalysis = None
    /\ apiKey \in BOOLEAN
    /\ user = None
    /\ isLoggedIn = FALSE
    /\ showAuth = FALSE
    /\ saveStatus = "idle"
    /\ checkUserPending = FALSE
    /\ measurements = << >>
    /\ measurementImages = << >>
    /\ measurementCalculations = << >>
    /\ saves = 0
    /\ lastSave = None
    /\ schema \in Schemas
    /\ scans = None

Init ==
    InitVisualizer /\ InitForm /\ InitApp /\ InitClient(Environments) /\ InitGemini
    /\ InitCamera

\* the same in any environment
InitAnyEnvironment ==
    InitVisualizer /\ InitForm /\ InitApp /\ InitClient(AllEnvironments) /\ InitGemini
    /\ InitCamera

NextStatsForm ==
    \/ \E t \in TypedCm : setHeightCm(t)
    \/ \E t \in TypedFt : setHeightFt(t)
    \/ \E t \in TypedIn : setHeightIn(t)
    \/ toggleUnitSystem
    \/ handleSubmit

SpecStatsForm == Init /\ [][NextStatsForm]_vars

\* C6: every height handleSubmit passes to onNext is a number strictly
\* greater than zero.
C6_SubmittedHeightPositive ==
    submitted # <<>> => submitted[1].height > 0

----------------------------------------------------------------------------
(* analyzeBodyMeasurements (services/geminiService.ts 129-414) *)

\* Math.random() in tenths, and the pixel heights and measurement sets the
\* vision model may answer with
Randoms == {0, 9}
PixelHeights == {0, 900}
ResponseResults == {MOCK_MEASUREMENT_RESULT, ALT_MEASUREMENT_RESULT}

\* the five draws of one demo analysis: chest, waist, hips, inseam and the
\* estimated height; the three middle draws are sampled together
DemoDraws == { <<rc, rm, rm, rm, re>> : rc \in Randoms, rm \in Randoms, re \in Randoms }

\* variance(base, range) of the demo path (geminiService.ts 143-146):
\* Math.round((base * (height / 180) + (random * range - range / 2)) * 10) / 10
\* base and height in 1/100 cm, random in tenths; the result in 1/10000 cm
variance(baseC, hC, range, r) ==
    1000 * ((2 * baseC * hC + 180000 * (2 * (r - 5) * range + 1)) \div 360000)

\* what the demo path returns (geminiService.ts 148-155)
DemoResult(h, rc, rw, rh, ri, re) ==
    [m |-> [MOCK_MEASUREMENT_RESULT EXCEPT
                !["chest"] = variance(10200, h \div 100, 2, rc),
                !["waist"] = variance(8500, h \div 100, 2, rw),
                !["hips"] = variance(9800, h \div 100, 2, rh),
                !["inseam"] = variance(8100, h \div 100, 2, ri)],
     model_name |-> "DEMO-MODE",
     scaling_factor |-> Some(10500),
     estimated_height_cm |-> Some(variance(h \div 100, h \div 100, 1, re)),
     technical_analysis |-> None]

\* the scaling the prompt asks the vision model for (geminiService.ts
\* 168-171, 211, 259-265): scaling_factor in pixels per cm, cm_per_pixel as
\* real height / pixel height; 0 where the quotient does not exist
PixelsPerCm(ph, h) == IF h > 0 THEN (ph * 1000000) \div (h \div 100) ELSE 0
CmPerPixel(ph, h) == IF ph > 0 THEN h \div ph ELSE 0

\* the parsed answer of the vision model with the model id attached
\* (geminiService.ts 364-402)
ModelResult(m, ph, h, modelId) ==
    [m |-> m,
     model_name |-> modelId,
     scaling_factor |-> Some(PixelsPerCm(ph, h)),
     estimated_height_cm |-> None,
     technical_analysis |->
        Some([scaling |-> [pixel_height |-> ph, real_height_cm |-> h,
                            cm_per_pixel |-> CmPerPixel(ph, h)]])]

\* the results a call for the given stats may resolve with
AnalysisResults(h) ==
    IF ~apiKey
    THEN { DemoResult(h, d[1], d[2], d[3], d[4], d[5]) : d \in DemoDraws }
    ELSE { ModelResult(m, ph, h, "gemini-3-pro-preview") :
              m \in ResponseResults, ph \in PixelHeights }

----------------------------------------------------------------------------
(* analyzeBodyMeasurements as a function of its inputs
   (services/geminiService.ts 125-413) *)

\* the model ids the settings offer, and what generateContent may answer
\* with: it rejects, the response has no text, the text is not JSON, the
\* text is the JSON value null, or it is a JSON object, which may carry a
\* model_name of its own
ModelIds == {"gemini-3-pro-preview", "gemini-2.5-flash"}
AnsweredNames == {"", "some-other-model"}

Responses ==
    { [kind |-> k] : k \in {"rejected", "no text", "not json", "null"} }
    \cup { [kind |-> "object", m |-> m, ph |-> ph, own |-> own] :
             m \in ResponseResults, ph \in PixelHeights, own \in AnsweredNames }

\* JSON.parse(jsonString) of an object answer for the given stats
ParsedObject(resp, h) == ModelResult(resp.m, resp.ph, h, resp.own)

\* result.model_name = modelId (geminiService.ts 389-390)
AttachModelNameKeepsAnswer(parsed, modelId) == parsed
AttachModelName(parsed, modelId) == [parsed EXCEPT !.model_name = modelId]

\* analyzeBodyMeasurements(front, side, stats, modelId): without a key the
\* demo result after the simulated latency, and no request; with a key one
\* request, and the parsed object with the model id attached, or an error
\* (a rejected request, no text, a text JSON.parse throws on, or a parsed
\* null, on which the assignment of model_name throws)
analyzeBodyMeasurements(key, h, modelId, resp, d) ==
    IF ~key
    THEN [called |-> FALSE, settled |-> "resolved",
          result |-> Some(DemoResult(h, d[1], d[2], d[3], d[4], d[5]))]
    ELSE IF resp.kind = "object"
    THEN [called |-> TRUE, settled |-> "resolved",
          result |-> Some(AttachModelName(ParsedObject(resp, h), modelId))]
    ELSE [called |-> TRUE, settled |-> "rejected", result |-> None]

\* the heights a call is made with
AnalyzedHeights == {0, Cm(150), Cm(176)}

\* one call of analyzeBodyMeasurements on any input, one call per behaviour
callAnalyzeBodyMeasurements ==
    /\ lastCall = None
    /\ \E key \in BOOLEAN, h \in AnalyzedHeights, modelId \in ModelIds, resp \in Responses,
          d \in DemoDraws :
          lastCall' = Some([key |-> key, height |-> h, modelId |-> modelId, response |-> resp,
                            returned |-> analyzeBodyMeasurements(key, h, modelId, resp, d)])
    /\ UNCHANGED <<visualizerVars, formVars, appVars, resultsViewVars, dbVars, serverVars,
                   configVars, cameraVars>>

NextGemini == callAnalyzeBodyMeasurements

SpecGemini == Init /\ [][NextGemini]_vars

----------------------------------------------------------------------------
(* saveScanResult (services/supabaseService.ts 178-363) *)

\* results.scaling_factor || results.technical_analysis?.scaling.cm_per_pixel
ScalingFactorColumn(r) ==
    IF r.scaling_factor # None /\ r.scaling_factor[1] # 0 THEN r.scaling_factor
    ELSE IF r.technical_analysis # None
         THEN Some(r.technical_analysis[1].scaling.cm_per_pixel)
         ELSE None

\* fullPayload (supabaseService.ts 242-273) and backupPayload (291-298)
fullPayload(scanId, u, st, r, meta) ==
    [id |-> scanId, user_id |-> u, height |-> st.height,
     chest |-> r.m["chest"], waist |-> r.m["waist"], hips |-> r.m["hips"],
     capture_method |-> meta, full_json |-> r, model_name |-> r.model_name,
     scaling_factor |-> ScalingFactorColumn(r),
     estimated_height_cm |-> r.estimated_height_cm]

backupPayload(scanId, u, st, r) ==
    [id |-> scanId, user_id |-> u, full_json |-> r, height |-> st.height]

\* the rows of the auxiliary tables (supabaseService.ts 322-353): an image
\* row for each of the front and side URLs that exist
imageRows(scanId, urls) ==
    (IF "front" \in urls THEN << [measurement_id |-> scanId, view_type |-> "front"] >>
     ELSE << >>)
    \o (IF "side" \in urls THEN << [measurement_id |-> scanId, view_type |-> "side"] >>
        ELSE << >>)

calculationRows(scanId, r) ==
    IF r.technical_analysis # None
    THEN << [measurement_id |-> scanId, metric_name |-> "global_scaling",
             raw_pixels |-> r.technical_analysis[1].scaling.pixel_height,
             scaling_factor |-> r.technical_analysis[1].scaling.cm_per_pixel] >>
    ELSE << >>

\* the uploads of saveScanResult in their order (supabaseService.ts 216-222)
\* and what becomes of one upload: it returns a URL, returns null (uploadFile
\* logs the error), throws, or is never started
UploadOrder == << "front", "side", "obj", "usdz" >>
UploadNames == {"front", "side", "obj", "usdz"}
UploadResults == {"ok", "failed", "threw", "none"}

\* upload i is started: the images always, a model only if its blob exists,
\* and none after an upload that threw (the rest of the try block is skipped)
UploadStarted(models, up, i) ==
    /\ (UploadOrder[i] = "obj" => models.objBlob)
    /\ (UploadOrder[i] = "usdz" => models.usdzBlob)
    /\ \A j \in 1..(i - 1) : up[UploadOrder[j]] # "threw"

\* the histories of the upload block for the given blobs
UploadOutcomes(models) ==
    { up \in [UploadNames -> UploadResults] :
        \A i \in 1..4 : (up[UploadOrder[i]] # "none") <=> UploadStarted(models, up, i) }

\* the files whose URL is not null after the upload block
uploadedUrls(models, up) == { n \in UploadNames : up[n] = "ok" }

\* catch (uploadErr): warn and go on to the insert, whatever the uploads did
ProceedsToInsertUnlessThrown(models, up) == \A n \in UploadNames : up[n] # "threw"
ProceedsToInsert(models, up) == TRUE

\* if (measurementError): the minimal insert is attempted after a failed
\* full insert
AttemptsBackupNever(fullOk) == FALSE
AttemptsBackup(fullOk) == ~fullOk

\* catch (auxErr): warn; return measurementData
ResultUnlessAuxThrew(row, aux) == IF aux = "threw" THEN None ELSE Some(row)
ResultAfterAux(row, aux) == Some(row)

\* insert(...).select().single() on measurements: the row is stored and
\* returned if the server accepts the statement, the INSERT policy admits the
\* row and the SELECT policy lets the session read it back
InsertReturning(sch, uid, row, accepted) ==
    accepted /\ InsertPolicy(sch, uid, row) /\ SelectPolicy(sch, uid, row)

\* what the environment does to one call: the history of the uploads,
\* whether the server accepts the full and the minimal statement, and whether
\* the auxiliary inserts succeed, are rejected, or building them throws
SaveOutcomes(models) ==
    [uploads : UploadOutcomes(models), full : BOOLEAN, backup : BOOLEAN,
     aux : {"ok", "failed", "threw"}]

\* saveScanResult (supabaseService.ts 178-363)
saveScanResult(st, r, meta, models, o) ==
    LET client == IF supabase = None
                  THEN initSupabase(env, storageAvailable, stored, supabase).client
                  ELSE supabase
        uid == user
        scanId == saves + 1
        urls == uploadedUrls(models, o.uploads)
        proceeds == ProceedsToInsert(models, o.uploads)
        full == fullPayload(scanId, uid, st, r, meta)
        fullOk == proceeds /\ InsertReturning(schema, uid, full, o.full)
        backupAttempted == proceeds /\ AttemptsBackup(fullOk)
        backup == backupPayload(scanId, uid, st, r)
        backupOk == backupAttempted /\ InsertReturning(schema, uid, backup, o.backup)
        saved == fullOk \/ backupOk
        row == IF fullOk THEN full ELSE backup
    IN  /\ supabase' = client
        /\ IF client = None
           THEN /\ lastSave' = Some([connected |-> FALSE, uploads |-> o.uploads,
                                     models |-> models, fullAttempted |-> FALSE,
                                     fullOk |-> FALSE, backupAttempted |-> FALSE,
                                     backupOk |-> FALSE, ids |-> {}, auxIssued |-> FALSE,
                                     aux |-> "ok", returned |-> None])
                /\ UNCHANGED <<measurements, measurementImages, measurementCalculations,
                               saves>>
           ELSE /\ saves' = scanId
                /\ measurements' = IF saved THEN Append(measurements, row) ELSE measurements
                /\ measurementImages' =
                      IF saved /\ o.aux = "ok"
                      THEN measurementImages \o imageRows(scanId, urls)
                      ELSE measurementImages
                /\ measurementCalculations' =
                      IF saved /\ o.aux = "ok"
                      THEN measurementCalculations \o calculationRows(scanId, r)
                      ELSE measurementCalculations
                /\ lastSave' = Some([connected |-> TRUE, uploads |-> o.uploads,
                                     models |-> models, fullAttempted |-> proceeds,
                                     fullOk |-> fullOk,
                                     backupAttempted |-> backupAttempted,
                                     backupOk |-> backupOk,
                                     ids |-> (IF proceeds THEN {full.id} ELSE {})
                                              \cup (IF backupAttempted THEN {backup.id}
                                                    ELSE {}),
                                     auxIssued |-> saved,
                                     aux |-> IF saved THEN o.aux ELSE "ok",
                                     returned |-> IF saved THEN ResultAfterAux(row, o.aux)
                                                  ELSE None])

----------------------------------------------------------------------------
(* App (INTEGRATION_NOTE_FOR_AI_ASSISTANTS.md 270-518) and ResultsView *)

\* the form contents App is driven with
SubmittedCm == {<<0>>, <<175>>}
SubmittedFt == {<<5>>}
SubmittedIn == {<<9>>}

FrontImages == {"front.jpg"}
SideImages == {"side.jpg"}
CaptureMethods == {"camera"}

\* the condition under which App renders ResultsView (and with it the
\* BodyVisualizer), for the state an action leaves
ShowsResults(step2, results2, stats2, front2, side2) ==
    step2 = "Results" /\ results2 # None /\ stats2 # None /\ front2 # None /\ side2 # None

\* React's commit after an App state change: ResultsView and BodyVisualizer
\* mount, unmount, or rerun the build effect when a prop object is new
Render(shows, newProps, r, st) ==
    IF shows /\ ~vMounted THEN
        /\ vMounted' = TRUE
        /\ RunEffect(r[1].m, st[1].height, animationLoops, containerCanvas, liveRenderers)
        /\ isLoggedIn' = FALSE /\ showAuth' = FALSE /\ saveStatus' = "idle"
        /\ checkUserPending' = TRUE
    ELSE IF ~shows /\ vMounted THEN
        /\ vMounted' = FALSE
        /\ animationLoops' = CleanupLoops(builds)
        /\ containerCanvas' = CleanupCanvas(builds)
        /\ liveRenderers' = CleanupRenderers(builds)
        /\ groupRef' = 0 /\ rendererRef' = 0 /\ props' = <<>>
        /\ isLoggedIn' = FALSE /\ showAuth' = FALSE /\ saveStatus' = "idle"
        /\ checkUserPending' = FALSE
        /\ UNCHANGED <<builds, group>>
    ELSE IF shows /\ vMounted /\ newProps THEN
        /\ RunEffect(r[1].m, st[1].height, CleanupLoops(builds), CleanupCanvas(builds),
                     CleanupRenderers(builds))
        /\ UNCHANGED <<vMounted, resultsViewVars>>
    ELSE UNCHANGED <<vMounted, props, builds, groupRef, group, rendererRef, liveRenderers,
                     animationLoops, containerCanvas, resultsViewVars>>

\* an App action that only moves to another step
GoTo(s) ==
    /\ step' = s
    /\ Render(ShowsResults(s, results, stats, frontImage, sideImage), FALSE, results, stats)
    /\ UNCHANGED <<stats, frontImage, frontMeta, sideImage, results, loading, pending,
                   analyses, lastAnalysis, apiKey, exported, formVars, dbVars, serverVars, configVars, geminiVars, cameraVars>>

\* the header logo
LogoClick == step # "Intro" /\ GoTo("Intro")

StartMeasurement == step = "Intro" /\ GoTo("Stats")

CameraFrontBack == step = "CameraFront" /\ GoTo("Stats")

\* handleStatsSubmit, called by StatsForm.handleSubmit with the stats of any
\* valid form
handleStatsSubmit ==
    /\ step = "Stats"
    /\ \E u \in {"metric", "imperial"}, cm \in SubmittedCm, ft \in SubmittedFt,
          inch \in SubmittedIn :
          /\ FormValid(u, cm, ft, inch)
          /\ stats' = Some(StatsOf(u, cm, ft, inch))
    /\ step' = "CameraFront"
    /\ UNCHANGED <<frontImage, frontMeta, sideImage, results, loading, pending, analyses, lastAnalysis,
                   apiKey, visualizerVars, formVars, resultsViewVars, dbVars, serverVars, configVars, geminiVars, cameraVars>>

handleFrontCapture ==
    /\ step = "CameraFront"
    /\ \E image \in FrontImages, meta \in CaptureMethods :
          frontImage' = Some(image) /\ frontMeta' = Some(meta)
    /\ step' = "CameraSide"
    /\ UNCHANGED <<stats, sideImage, results, loading, pending, analyses, lastAnalysis, apiKey,
                   visualizerVars, formVars, resultsViewVars, dbVars, serverVars, configVars, geminiVars, cameraVars>>

CameraSideBack ==
    /\ step = "CameraSide"
    /\ frontImage' = None
    /\ step' = "CameraFront"
    /\ UNCHANGED <<stats, frontMeta, sideImage, results, loading, pending, analyses, lastAnalysis, apiKey,
                   visualizerVars, formVars, resultsViewVars, dbVars, serverVars, configVars, geminiVars, cameraVars>>

\* handleSideCapture up to its await: with stats, front image and front
\* metadata the analysis is started, else the catch branch runs at once
handleSideCapture ==
    /\ step = "CameraSide"
    /\ analyses < MaxAnalyses
    /\ \E image \in SideImages :
          IF stats # None /\ frontImage # None /\ frontMeta # None
          THEN /\ sideImage' = Some(image)
               /\ step' = "Processing"
               /\ loading' = TRUE
               /\ pending' = pending \cup {[id |-> analyses + 1, stats |-> stats[1],
                                            front |-> frontImage[1], side |-> image]}
               /\ analyses' = analyses + 1
               /\ UNCHANGED <<frontImage, lastAnalysis>>
          ELSE /\ sideImage' = None
               /\ frontImage' = None
               /\ step' = "CameraFront"
               /\ loading' = FALSE
               /\ analyses' = analyses + 1
               /\ lastAnalysis' = Some([id |-> analyses + 1, outcome |-> "missing"])
               /\ UNCHANGED pending
    /\ UNCHANGED <<stats, frontMeta, results, apiKey, visualizerVars, formVars,
                   resultsViewVars, dbVars, serverVars, configVars, geminiVars, cameraVars>>

\* the awaited call resolves: setResults, setStep(Results), finally
\* setLoading(false)
AnalysisResolve ==
    \E p \in pending : \E r \in AnalysisResults(p.stats.height) :
        /\ pending' = pending \ {p}
        /\ lastAnalysis' = Some([id |-> p.id, outcome |-> "resolved"])
        /\ results' = Some(r)
        /\ step' = "Results"
        /\ loading' = FALSE
        /\ Render(ShowsResults("Results", Some(r), stats, frontImage, sideImage), TRUE,
                  Some(r), stats)
        /\ UNCHANGED <<stats, frontImage, frontMeta, sideImage, analyses, apiKey, exported,
                       formVars, dbVars, serverVars, configVars, geminiVars, cameraVars>>

\* the awaited call rejects (no response text, unparseable JSON, a network
\* error; never in demo mode): alert, restart the capture
AnalysisRejectKeepsImages ==
    \E p \in pending :
        /\ apiKey
        /\ pending' = pending \ {p}
        /\ lastAnalysis' = Some([id |-> p.id, outcome |-> "rejected"])
        /\ step' = "CameraFront"
        /\ loading' = FALSE
        /\ Render(FALSE, FALSE, results, stats)
        /\ UNCHANGED <<stats, frontImage, frontMeta, sideImage, results, analyses, apiKey, exported,
                       formVars, dbVars, serverVars, configVars, geminiVars, cameraVars>>
AnalysisReject ==
    \E p \in pending :
        /\ apiKey
        /\ pending' = pending \ {p}
        /\ lastAnalysis' = Some([id |-> p.id, outcome |-> "rejected"])
        /\ step' = "CameraFront"
        /\ frontImage' = None
        /\ sideImage' = None
        /\ loading' = FALSE
        /\ Render(FALSE, FALSE, results, stats)
        /\ UNCHANGED <<stats, frontMeta, results, analyses, apiKey, exported, formVars, dbVars, serverVars, configVars, geminiVars, cameraVars>>

handleReset ==
    /\ vMounted
    /\ step' = "Intro"
    /\ stats' = None
    /\ frontImage' = None
    /\ sideImage' = None
    /\ results' = None
    /\ Render(FALSE, FALSE, results, stats)
    /\ UNCHANGED <<frontMeta, loading, pending, analyses, lastAnalysis, apiKey, exported, formVars, dbVars, serverVars, configVars, geminiVars, cameraVars>>

\* checkUser of ResultsView (ResultsView.tsx 26-33): getUser() resolves
checkUser ==
    /\ checkUserPending
    /\ checkUserPending' = FALSE
    /\ isLoggedIn' = (isSupabaseConnected /\ user # None)
    /\ UNCHANGED <<showAuth, saveStatus, visualizerVars, formVars, appVars, dbVars, serverVars, configVars, geminiVars, cameraVars>>

\* AuthForm reports success (ResultsView.tsx 125): setIsLoggedIn(true),
\* setShowAuth(false), then handleSaveToCloud() of the render in which
\* isLoggedIn was still false, which only sets showAuth again
onAuthSuccess ==
    /\ vMounted /\ showAuth /\ ~isLoggedIn /\ isSupabaseConnected
    /\ user' = Some("user-1")
    /\ isLoggedIn' = TRUE
    /\ showAuth' = TRUE
    /\ UNCHANGED <<saveStatus, checkUserPending, visualizerVars, formVars, appVars, supabase,
                   measurements, measurementImages, measurementCalculations, saves, lastSave,
                   serverVars, configVars, geminiVars, cameraVars>>

\* what the environment does to the saves of the App run: everything works,
\* the uploads and the full insert fail, or every insert fails
AppSaveOutcomes(models) ==
    { o \in SaveOutcomes(models) :
        /\ o.aux = "ok"
        /\ \/ (\A n \in UploadNames : o.uploads[n] \in {"ok", "none"}) /\ o.full /\ o.backup
           \/ o.uploads["front"] = "threw" /\ ~o.full }

\* handleSaveToCloud (ResultsView.tsx 35-64): without a logged in user the
\* sign-in form is shown; else the blobs are taken from the visualizer,
\* saveScanResult is called and its result decides the save status
handleSaveToCloud ==
    /\ vMounted
    /\ IF ~isLoggedIn
       THEN /\ showAuth' = TRUE
            /\ UNCHANGED <<isLoggedIn, saveStatus, checkUserPending, exported, dbVars>>
       ELSE /\ saves < MaxSaves
            /\ exported' = IF groupRef = 0 THEN <<>> ELSE << ExportOf(group) >>
            /\ LET models == [objBlob |-> groupRef # 0, usdzBlob |-> groupRef # 0]
               IN  \E o \in AppSaveOutcomes(models) :
                      saveScanResult(stats[1], results[1], frontMeta, models, o)
            /\ saveStatus' = IF lastSave'[1].returned # None THEN "saved" ELSE "error"
            /\ UNCHANGED <<isLoggedIn, showAuth, checkUserPending, user>>
    /\ UNCHANGED <<vMounted, props, builds, groupRef, group, rendererRef, liveRenderers,
                   animationLoops, containerCanvas, formVars, appVars, serverVars, configVars, geminiVars, cameraVars>>

----------------------------------------------------------------------------
(* The measurements table as the sessions of several users see it *)

\* signIn / signOut (supabaseService.ts 136-140, 153-156)
signIn ==
    /\ isSupabaseConnected
    /\ \E u \in Users : user' = Some(u)
    /\ UNCHANGED <<supabase, measurements, measurementImages, measurementCalculations, saves, lastSave,
                   schema, scans, configVars, geminiVars, cameraVars, visualizerVars, formVars, appVars, resultsViewVars>>

signOut ==
    /\ isSupabaseConnected
    /\ user' = None
    /\ UNCHANGED <<supabase, measurements, measurementImages, measurementCalculations, saves, lastSave,
                   schema, scans, configVars, geminiVars, cameraVars, visualizerVars, formVars, appVars, resultsViewVars>>

\* the insert into measurements that saveScanResult sends for the session's
\* user (supabaseService.ts 299-305), admitted by the INSERT policy
insertMeasurement ==
    /\ isSupabaseConnected
    /\ Len(measurements) < MaxRows
    /\ LET row == backupPayload(Len(measurements) + 1, user,
                                [height |-> Cm(176), unitSystem |-> "metric"],
                                DemoResult(Cm(176), 0, 0, 0, 0, 0))
       IN  /\ InsertPolicy(schema, user, row)
           /\ measurements' = Append(measurements, row)
    /\ UNCHANGED <<supabase, user, measurementImages, measurementCalculations, saves, lastSave,
                   schema, scans, configVars, geminiVars, cameraVars, visualizerVars, formVars, appVars, resultsViewVars>>

\* getScans (supabaseService.ts 365-378): select * from measurements, which
\* returns the rows the SELECT policy admits for the session
getScans ==
    /\ scans' = Some([by |-> user,
                      rows |-> IF isSupabaseConnected
                               THEN SelectSeq(measurements,
                                              LAMBDA row : SelectPolicy(schema, user, row))
                               ELSE << >>])
    /\ UNCHANGED <<dbVars, schema, configVars, geminiVars, cameraVars, visualizerVars, formVars, appVars, resultsViewVars>>

NextDatabase ==
    \/ signIn
    \/ signOut
    \/ insertMeasurement
    \/ getScans

SpecDatabase == Init /\ [][NextDatabase]_vars

----------------------------------------------------------------------------
(* Configuring and initialising the client *)

\* configureSupabase (supabaseService.ts 99-123), called by
\* SettingsModal.handleSave with the typed URL and key
configureSupabase(url, key) ==
    /\ IF createClientThrows(url, key)
       THEN UNCHANGED <<supabase, stored>>
       ELSE /\ supabase' = createClient(url, key)
            /\ stored' = IF storageAvailable THEN Some(StoredConfig(url, key)) ELSE stored
    /\ UNCHANGED <<env, storageAvailable, lastInit, user, measurements, measurementImages,
                   measurementCalculations, saves, lastSave, serverVars, visualizerVars, formVars,
                   appVars, resultsViewVars, geminiVars, cameraVars>>

\* the part of the state a call of initSupabase() leaves alone
initFrame == <<env, storageAvailable, stored, user, measurements, measurementImages,
               measurementCalculations, saves, lastSave, serverVars, visualizerVars, formVars,
               appVars, resultsViewVars, geminiVars, cameraVars>>

\* a call of initSupabase() after load, as AuthForm.handleRetry makes it
\* (BodyVisualizer.tsx 508-516), with the service of supabaseService.ts
handleRetry ==
    /\ supabase' = initSupabase(env, storageAvailable, stored, supabase).client
    /\ lastInit' = Some([version |-> "supabaseService.ts", before |-> supabase,
                         after |-> supabase',
                         returned |-> initSupabase(env, storageAvailable, stored,
                                                   supabase).returned])
    /\ UNCHANGED initFrame

\* the same with the service of unnamed/part_004
handleRetry_part_004 ==
    /\ supabase' = initSupabase_part_004(env, storageAvailable, stored, supabase).client
    /\ lastInit' = Some([version |-> "part_004", before |-> supabase,
                         after |-> supabase',
                         returned |-> initSupabase_part_004(env, storageAvailable, stored,
                                                            supabase).returned])
    /\ UNCHANGED initFrame

NextSupabase ==
    \/ \E url \in UrlSettings, key \in KeySettings : configureSupabase(url, key)
    \/ handleRetry
    \/ handleRetry_part_004

SpecSupabase == InitAnyEnvironment /\ [][NextSupabase]_vars

----------------------------------------------------------------------------
(* saveScanResult on its own: any session, any outcome of the requests *)

SavedStats == [height |-> Cm(176), unitSystem |-> "metric"]
SavedResults == { ModelResult(MOCK_MEASUREMENT_RESULT, 900, Cm(176), "gemini-3-pro-preview") }
ModelBlobs == { [objBlob |-> b, usdzBlob |-> b] : b \in BOOLEAN }

callSaveScanResult ==
    /\ saves < MaxSaves
    /\ \E r \in SavedResults, models \in ModelBlobs :
          \E o \in SaveOutcomes(models) :
              saveScanResult(SavedStats, r, Some("camera"), models, o)
    /\ UNCHANGED <<user, serverVars, configVars, geminiVars, cameraVars, visualizerVars, formVars, appVars,
                   resultsViewVars>>

NextSave ==
    \/ signIn
    \/ signOut
    \/ callSaveScanResult

SpecSave == Init /\ [][NextSave]_vars

Next ==
    \/ LogoClick
    \/ StartMeasurement
    \/ CameraFrontBack
    \/ handleStatsSubmit
    \/ handleFrontCapture
    \/ CameraSideBack
    \/ handleSideCapture
    \/ AnalysisResolve
    \/ AnalysisReject
    \/ handleReset
    \/ checkUser
    \/ onAuthSuccess
    \/ signOut
    \/ handleSaveToCloud
    \/ \E b \in animationLoops : animate(b)

Spec == Init /\ [][Next]_vars

\* the capture flow alone: the steps of App up to the results screen and back
NextCapture ==
    \/ LogoClick
    \/ StartMeasurement
    \/ CameraFrontBack
    \/ handleStatsSubmit
    \/ handleFrontCapture
    \/ CameraSideBack
    \/ handleSideCapture
    \/ AnalysisResolve
    \/ AnalysisReject
    \/ handleReset

SpecCapture == Init /\ [][NextCapture]_vars

----------------------------------------------------------------------------
(* CameraCapture (components/CameraCapture.tsx): one instance, its camera
   streams, its capture sequences and their timers *)

\* const prepDuration = 10 (CameraCapture.tsx 325)
prepDuration == 10

isMountedRef == cameraLife = "mounted"

\* the <video> element is rendered in the camera view when there is no error
\* (CameraCapture.tsx 474-492); the hidden canvas always (608)
videoRef == isMountedRef /\ captureMethod = "camera" /\ ~cameraError
canvasRef == isMountedRef

\* streamRef.current.getTracks().forEach(track => track.stop())
StopTracks(live, ref) == live \ {ref}

\* the effect on [captureMethod, startCamera] (CameraCapture.tsx 238-249)
\* after a render that changed the capture method or the facing mode: in
\* camera mode startCamera() (170-236) stops the stream of streamRef, clears
\* the ref and asks getUserMedia for a stream; in upload mode the stream of
\* streamRef is stopped and the ref cleared
CaptureMethodEffect(method) ==
    /\ liveStreams' = StopTracks(liveStreams, streamRef)
    /\ streamRef' = 0
    /\ IF method = "camera"
       THEN /\ cameraStarts' = cameraStarts + 1
            /\ mediaRequests' = mediaRequests \cup
                                  {[id |-> cameraStarts + 1, phase |-> "getUserMedia"]}
       ELSE UNCHANGED <<cameraStarts, mediaRequests>>

\* the first render and its effects (CameraCapture.tsx 51-56, 238-241)
MountCamera ==
    /\ cameraLife = "new"
    /\ cameraLife' = "mounted"
    /\ CaptureMethodEffect(captureMethod)
    /\ UNCHANGED <<captureMethod, facingMode, cameraError, countdown, sequenceStartedRef,
                   sequences, sequencesStarted, captureTimers, onCaptureCalls, notCamera>>

\* the cleanups of the unmount (CameraCapture.tsx 58-65, 78-86): the mounted
\* flag is cleared and the stream of streamRef is stopped; no timer is cleared
CameraCleanup ==
    /\ cameraLife' = "unmounted"
    /\ liveStreams' = StopTracks(liveStreams, streamRef)

\* the parent stops rendering the component (Back, or any change of step)
UnmountCamera ==
    /\ isMountedRef
    /\ CameraCleanup
    /\ UNCHANGED <<captureMethod, facingMode, cameraError, countdown, sequenceStartedRef,
                   sequences, sequencesStarted, captureTimers, onCaptureCalls, streamRef,
                   mediaRequests, cameraStarts, notCamera>>

\* getUserMedia resolves (CameraCapture.tsx 193-226): an unmounted component
\* stops the stream at once; a mounted one keeps it, and either stores it at
\* once or first awaits applyConstraints (when the track offers continuous focus)
getUserMediaResolves ==
    \E q \in mediaRequests : \E focus \in BOOLEAN :
        /\ q.phase = "getUserMedia"
        /\ IF ~isMountedRef
           THEN /\ mediaRequests' = mediaRequests \ {q}
                /\ UNCHANGED <<liveStreams, streamRef, cameraError>>
           ELSE IF focus
           THEN /\ mediaRequests' = (mediaRequests \ {q}) \cup
                                      {[id |-> q.id, phase |-> "applyConstraints"]}
                /\ liveStreams' = liveStreams \cup {q.id}
                /\ UNCHANGED <<streamRef, cameraError>>
           ELSE /\ mediaRequests' = mediaRequests \ {q}
                /\ liveStreams' = liveStreams \cup {q.id}
                /\ streamRef' = q.id
                /\ cameraError' = FALSE
        /\ UNCHANGED <<cameraLife, captureMethod, facingMode, countdown, sequenceStartedRef,
                       sequences, sequencesStarted, captureTimers, onCaptureCalls,
                       cameraStarts, notCamera>>

\* applyConstraints settles (CameraCapture.tsx 216-226): the stream is stored
applyConstraintsSettles ==
    \E q \in mediaRequests :
        /\ q.phase = "applyConstraints"
        /\ mediaRequests' = mediaRequests \ {q}
        /\ streamRef' = q.id
        /\ cameraError' = IF isMountedRef THEN FALSE ELSE cameraError
        /\ UNCHANGED <<cameraLife, captureMethod, facingMode, countdown, sequenceStartedRef,
                       sequences, sequencesStarted, captureTimers, onCaptureCalls,
                       liveStreams, cameraStarts, notCamera>>

\* getUserMedia rejects (CameraCapture.tsx 227-233)
getUserMediaRejects ==
    \E q \in mediaRequests :
        /\ q.phase = "getUserMedia"
        /\ mediaRequests' = mediaRequests \ {q}
        /\ cameraError' = IF isMountedRef THEN TRUE ELSE cameraError
        /\ UNCHANGED <<cameraLife, captureMethod, facingMode, countdown, sequenceStartedRef,
                       sequences, sequencesStarted, captureTimers, onCaptureCalls,
                       streamRef, liveStreams, cameraStarts, notCamera>>

\* the Camera / Upload buttons of the header (CameraCapture.tsx 437-448, 480)
setCaptureMethod(method) ==
    /\ isMountedRef
    /\ captureMethod # method
    /\ method = "camera" => cameraStarts < MaxCameraStarts
    /\ captureMethod' = method
    /\ CaptureMethodEffect(method)
    /\ UNCHANGED <<cameraLife, facingMode, cameraError, countdown, sequenceStartedRef,
                   sequences, sequencesStarted, captureTimers, onCaptureCalls, notCamera>>

\* toggleCamera (CameraCapture.tsx 255-261) and the effect its render runs
toggleCamera ==
    /\ isMountedRef
    /\ captureMethod = "camera"
    /\ cameraStarts < MaxCameraStarts
    /\ facingMode' = IF facingMode = "environment" THEN "user" ELSE "environment"
    /\ countdown' = None
    /\ sequenceStartedRef' = FALSE
    /\ CaptureMethodEffect("camera")
    /\ UNCHANGED <<cameraLife, captureMethod, cameraError, sequences, sequencesStarted,
                   captureTimers, onCaptureCalls, notCamera>>

\* the Start button (CameraCapture.tsx 579-581), disabled while countdown is
\* not null, calls startCaptureSequence (318-331), which returns at once if
\* sequenceStartedRef is set and else starts the preparation speech
startCaptureSequence ==
    /\ isMountedRef
    /\ captureMethod = "camera"
    /\ countdown = None
    /\ ~sequenceStartedRef
    /\ sequencesStarted < MaxSequences
    /\ sequenceStartedRef' = TRUE
    /\ countdown' = Some(prepDuration)
    /\ sequencesStarted' = sequencesStarted + 1
    /\ sequences' = sequences \cup
                      {[id |-> sequencesStarted + 1, phase |-> "speak", remaining |-> prepDuration]}
    /\ UNCHANGED <<cameraLife, captureMethod, facingMode, cameraError, captureTimers,
                   onCaptureCalls, streamRef, liveStreams, mediaRequests, cameraStarts,
                   notCamera>>

\* one run of tick() with the given remaining (CameraCapture.tsx 340-365):
\* what it leaves of the sequence and of countdown
TickLeaves(p) ==
    IF p.remaining > 0
    THEN [p EXCEPT !.phase = "tick", !.remaining = @ - 1]
    ELSE [p EXCEPT !.phase = "hold still"]

\* the preparation speech ends, or is cancelled (CameraCapture.tsx 329-336,
\* 367): an unmounted component returns, a mounted one runs the first tick
PreparationSpoken ==
    \E p \in sequences :
        /\ p.phase = "speak"
        /\ IF isMountedRef
           THEN /\ countdown' = Some(p.remaining)
                /\ sequences' = (sequences \ {p}) \cup {TickLeaves(p)}
           ELSE /\ sequences' = sequences \ {p}
                /\ UNCHANGED countdown
        /\ UNCHANGED <<cameraLife, captureMethod, facingMode, cameraError, sequenceStartedRef,
                       sequencesStarted, captureTimers, onCaptureCalls, streamRef, liveStreams,
                       mediaRequests, cameraStarts, notCamera>>

\* setTimeout(tick, 1000) fires (CameraCapture.tsx 340-365)
tick ==
    \E p \in sequences :
        /\ p.phase = "tick"
        /\ IF isMountedRef
           THEN /\ countdown' = Some(p.remaining)
                /\ sequences' = (sequences \ {p}) \cup {TickLeaves(p)}
           ELSE /\ sequences' = sequences \ {p}
                /\ UNCHANGED countdown
        /\ UNCHANGED <<cameraLife, captureMethod, facingMode, cameraError, sequenceStartedRef,
                       sequencesStarted, captureTimers, onCaptureCalls, streamRef, liveStreams,
                       mediaRequests, cameraStarts, notCamera>>

\* takePhoto (CameraCapture.tsx 263-316) does something only with a video
\* element, a canvas and a mounted component
TakesPhoto == videoRef /\ canvasRef /\ isMountedRef

\* "Hold still" was spoken (CameraCapture.tsx 354-360): an unmounted
\* component returns; a mounted one calls takePhoto(), which clears the
\* countdown and sets the 400 ms timer of onCapture, and then clears
\* sequenceStartedRef
HoldStillSpoken ==
    \E p \in sequences :
        /\ p.phase = "hold still"
        /\ sequences' = sequences \ {p}
        /\ IF isMountedRef
           THEN /\ sequenceStartedRef' = FALSE
                /\ IF TakesPhoto
                   THEN countdown' = None /\ captureTimers' = captureTimers \cup {p.id}
                   ELSE UNCHANGED <<countdown, captureTimers>>
           ELSE UNCHANGED <<sequenceStartedRef, countdown, captureTimers>>
        /\ UNCHANGED <<cameraLife, captureMethod, facingMode, cameraError, sequencesStarted,
                       onCaptureCalls, streamRef, liveStreams, mediaRequests, cameraStarts,
                       notCamera>>

\* the 400 ms timer of takePhoto fires (CameraCapture.tsx 311-313):
\* onCapture(imageBase64, metadata); the parent's handler changes the step
\* (handleFrontCapture, handleSideCapture), which unmounts a mounted component
onCapture ==
    \E t \in captureTimers :
        /\ captureTimers' = captureTimers \ {t}
        /\ onCaptureCalls' = Append(onCaptureCalls, [sequence |-> t, mounted |-> isMountedRef])
        /\ IF isMountedRef THEN CameraCleanup ELSE UNCHANGED <<cameraLife, liveStreams>>
        /\ UNCHANGED <<captureMethod, facingMode, cameraError, countdown, sequenceStartedRef,
                       sequences, sequencesStarted, streamRef, mediaRequests, cameraStarts,
                       notCamera>>

NextCamera ==
    \/ MountCamera
    \/ UnmountCamera
    \/ getUserMediaResolves
    \/ applyConstraintsSettles
    \/ getUserMediaRejects
    \/ \E method \in {"camera", "upload"} : setCaptureMethod(method)
    \/ toggleCamera
    \/ startCaptureSequence
    \/ PreparationSpoken
    \/ tick
    \/ HoldStillSpoken
    \/ onCapture

\* the component alone: the rest of the program stays in one initial state
InitCameraAlone ==
    /\ InitVisualizer /\ InitForm /\ InitApp /\ InitGemini /\ InitCamera
    /\ InitClient({Environment(Config("", ""), TRUE, None)})
    /\ ~apiKey
    /\ schema = "supabase_setup"

SpecCamera == InitCameraAlone /\ [][NextCamera]_vars

\* the same with the browser running every timer and speech callback that
\* is due; the user and the camera are free to do nothing
CameraCallbacks == PreparationSpoken \/ tick \/ HoldStillSpoken \/ onCapture

SpecCameraFair == SpecCamera /\ WF_vars(CameraCallbacks)

----------------------------------------------------------------------------
(* The mesh builder on every input: one build per behaviour *)

NextBuilder == \E m \in MeasurementInputs, h \in HeightInputs : Mount(m, h)

SpecBuilder == Init /\ [][NextBuilder]_vars

----------------------------------------------------------------------------
(* The component's lifecycle on a few inputs *)

LifecycleResults ==
    {MOCK_MEASUREMENT_RESULT, ALT_MEASUREMENT_RESULT}
    \cup { [f \in Fields \ S |-> MOCK_MEASUREMENT_RESULT[f]] :
            S \in {T \in SUBSET {"thigh", "inseam"} : Cardinality(T) <= MaxMissing} }

LifecycleHeights == {Cm(150), Cm(176)}

NextVisualizer ==
    \/ \E m \in LifecycleResults, h \in LifecycleHeights : Mount(m, h)
    \/ \E m \in LifecycleResults, h \in LifecycleHeights : PropsChange(m, h)
    \/ \E b \in animationLoops : animate(b)
    \/ generateOBJ
    \/ Unmount

SpecVisualizer == Init /\ [][NextVisualizer]_vars

----------------------------------------------------------------------------
(* Reading the built mesh *)

Children == group.children
Built == groupRef # 0
Meshes == {i \in 1..Len(Children) : Children[i].kind # "group"}
Named(n) == Children[CHOOSE i \in 1..Len(Children) : Children[i].name = n]
MeshNames == [i \in 1..Len(Children) |-> Children[i].name]

\* the segment quantity that a field of the result decides
UsedFor(f) ==
    CASE f = "neck" -> Named("neck").rTop
      [] f = "shoulder" -> Named("shoulder_yoke").len
      [] f = "chest" -> Named("chest").rTop
      [] f = "waist" -> Named("waist").rBot
      [] f = "hips" -> Named("hips").rBot
      [] f = "thigh" -> Named("thigh").rTop
      [] f = "calf" -> Named("knee").rTop
      [] f = "ankle" -> Named("shin").rBot
      [] f = "inseam" -> Named("thigh").len
      [] f = "bicep" -> Named("upperArm").rTop
      [] f = "wrist" -> Named("lowerArm").rBot
      [] f = "sleeve" -> Named("upperArm").len

\* the documented default of each field, in cm
DefaultCm(f) ==
    CASE f = "neck" -> 38 [] f = "shoulder" -> 45 [] f = "chest" -> 100
      [] f = "waist" -> 80 [] f = "hips" -> 95 [] f = "thigh" -> 55
      [] f = "calf" -> 38 [] f = "ankle" -> 25 [] f = "inseam" -> 75
      [] f = "bicep" -> 35 [] f = "wrist" -> 17 [] f = "sleeve" -> 60

\* 2 * pi * r as a circumference, to compare a radius with c / (2 pi)
\* without dividing: r is c / (2 pi) rounded down iff 710 r <= 113 c < 710 (r + 1)
IsCircOver2Pi(r, c) == 710 * r <= 113 * c /\ 113 * c < 710 * (r + 1)

\* the shape factor the builder applies to the value of a field
ShapedAs(f, v) ==
    CASE f \in {"neck", "waist", "hips", "thigh", "ankle", "bicep"} -> (113 * v) \div 710
      [] f = "chest" -> (((113 * v) \div 710) * 11) \div 10
      [] f = "calf" -> (((113 * v) \div 710) * 11) \div 10
      [] f = "wrist" -> (((113 * v) \div 710) * 15) \div 10
      [] f = "shoulder" -> v
      [] f = "inseam" -> (v * 5) \div 10
      [] f = "sleeve" -> (v * 45) \div 100

ExpectedMeshNames ==
    << "head", "neck", "shoulder_yoke", "chest", "waist", "hips",
       "thigh", "knee", "shin", "thigh", "knee", "shin",
       "upperGroup", "upperArm", "lowerGroup", "lowerArm",
       "upperGroup", "upperArm", "lowerGroup", "lowerArm" >>

----------------------------------------------------------------------------
(* Claims about the mesh builder (SpecBuilder) *)

\* C1: whatever the result and the height, every radius of every segment of
\* the built mesh is strictly positive (absent, zero or negative values never
\* give a radius <= 0).
C1_EveryRadiusPositive ==
    Built => \A i \in Meshes : Children[i].rTop > 0 /\ Children[i].rBot > 0

\* C2: with any fields of the result absent, the build creates every segment;
\* an absent field uses its default, a present non-zero field its own value,
\* and the thigh radius of a result without thigh is the positive default.
C2_AbsentFieldsUseDefault ==
    Built =>
        /\ MeshNames = ExpectedMeshNames
        /\ Cardinality(Meshes) = 16
        /\ \A f \in Fields \ DOMAIN props[1].m :
              UsedFor(f) = ShapedAs(f, Cm(DefaultCm(f)))
        /\ \A f \in DOMAIN props[1].m :
              props[1].m[f] # 0 => UsedFor(f) = ShapedAs(f, props[1].m[f])
        /\ "thigh" \notin DOMAIN props[1].m =>
              Named("thigh").rTop > 0 /\ IsCircOver2Pi(Named("thigh").rTop, Cm(55))

C2_Witness ==
    /\ Built
    /\ "thigh" \notin DOMAIN props[1].m
    /\ "calf" \in DOMAIN props[1].m
    /\ Named("thigh").rTop > Cm(8)

\* the distance from the top of the head to the bottom of the shin
StackExtent ==
    (Named("head").y + Named("head").rTop)
        - (Named("shin").y - (Named("shin").len \div 2))

\* C3: for a result with every field present, the stack from the head top to
\* the bottom of the shin equals the input height within 2%.
C3_StackSpansHeight ==
    (Built /\ DOMAIN props[1].m = Fields /\ \A f \in Fields : props[1].m[f] > 0)
        => 100 * Abs(StackExtent - props[1].h) <= 2 * props[1].h

C9_DefaultScaledByHeight ==
    Built => \A f \in Fields :
                (f \notin DOMAIN props[1].m) =>
                    UsedFor(f) = ShapedAs(f, (DefaultCm(f) * props[1].h) \div 180)

----------------------------------------------------------------------------
(* Claims about the component's lifecycle (SpecVisualizer) *)

\* C7: while mounted, after any sequence of input changes, there is exactly
\* one renderer, one canvas and one animation loop, all of the latest build,
\* and groupRef points at a group built from scratch from the latest inputs;
\* after unmount nothing is left running.
C7_OneMeshOfLatestInputs ==
    /\ vMounted =>
          /\ groupRef = builds /\ group.build = builds /\ rendererRef = builds
          /\ Children = BuildMannequin(props[1].m, props[1].h)
          /\ animationLoops = {builds}
          /\ liveRenderers = {builds}
          /\ containerCanvas = {builds}
    /\ ~vMounted => animationLoops = {} /\ liveRenderers = {} /\ containerCanvas = {}

C7_Witness ==
    /\ vMounted
    /\ builds >= 2
    /\ group.rotationTicks > 1
    /\ props[1].m = ALT_MEASUREMENT_RESULT

\* C8: the geometry handed to an exporter is that of the mesh as the build
\* left it: it does not depend on how many frames have been rendered.
C8_ExportIndependentOfFrames ==
    exported # <<>> => exported[1].rotationTicks = 1


\* a result whose calibration can be used: a positive reference height and,
\* where the result carries a pixel height, a positive one
UsableCalibration(h, r) ==
    /\ h > 0
    /\ r.technical_analysis # None => r.technical_analysis[1].scaling.pixel_height > 0

\* C5: with an unusable calibration reference (pixel height <= 0, or no
\* usable reference height) the pipeline fails explicitly: no result is shown
\* or stored and no mesh is built from it. Stated as: every result that is
\* rendered with its mesh, and every stored record, has a usable calibration.
C5_NoResultFromUnusableCalibration ==
    /\ vMounted => UsableCalibration(stats[1].height, results[1])
    /\ \A i \in DOMAIN measurements :
          UsableCalibration(measurements[i].height, measurements[i].full_json)

\* C10: the scaling_factor column saved by saveScanResult has the value of
\* technical_analysis.scaling.cm_per_pixel of the saved result.
C10_SavedScalingFactorIsCmPerPixel ==
    \A i \in DOMAIN measurements :
        ("scaling_factor" \in DOMAIN measurements[i]
            /\ measurements[i].full_json.technical_analysis # None)
        => measurements[i].scaling_factor
              = Some(measurements[i].full_json.technical_analysis[1].scaling.cm_per_pixel)


\* C12: row level security lets a user read only their own data: whatever
\* schema script was run, every row a SELECT on measurements returns to a
\* session has that session's user as its user_id (no row of another user,
\* and no user's row to an anonymous session).
C12_SelectReturnsOnlyOwnRows ==
    scans # None =>
        \A i \in DOMAIN scans[1].rows : scans[1].rows[i].user_id = scans[1].by


\* sin of an angle given in milliradians, in 1/10000, for the angles the
\* arm groups are rotated by (multiples of 0.1 up to 0.4)
Sin(a) ==
    LET t == [k \in 0..4 |-> <<0, 998, 1987, 2955, 3894>>[k + 1]]
    IN  IF a >= 0 THEN t[a \div 100] ELSE -t[(-a) \div 100]

\* world x of a point at (0, y) in a frame rotated by rotZ about z and placed
\* at x0: x0 + (0 * cos - y * sin)
WorldX(x0, y, rotZ) == x0 - (y * Sin(rotZ)) \div 10000

\* the arm groups of the built mesh, the elbow (lower end of the upper arm)
\* and the wrist (lower end of the forearm) of the arm whose group is node i
UpperGroups == {i \in 1..Len(Children) : Children[i].name = "upperGroup"}
ElbowX(i) == WorldX(Children[i].x, Children[i + 2].y, Children[i].rotZ)
WristX(i) ==
    WorldX(ElbowX(i), -Children[i + 3].len, Children[i].rotZ + Children[i + 2].rotZ)

\* the arm groups sit at the two ends of the shoulder yoke
ArmsAtYokeEnds ==
    \A i \in UpperGroups :
        /\ Children[i].y = Named("shoulder_yoke").y
        /\ Abs(2 * Abs(Children[i].x) - Abs(Named("shoulder_yoke").len)) <= 1

\* C14: each arm is attached at its shoulder-yoke endpoint and rotated
\* outward: the lower end of the upper arm and of the forearm lie farther
\* from the torso midline (larger |x|) than the shoulder attachment point.
C14_ArmsRotatedOutward ==
    Built =>
        /\ ArmsAtYokeEnds
        /\ \A i \in UpperGroups :
              /\ Abs(ElbowX(i)) > Abs(Children[i].x)
              /\ Abs(WristX(i)) > Abs(Children[i].x)

\* the chain of owners of node i up to the root group (node 0)
RECURSIVE Ancestors(_)
Ancestors(i) ==
    IF Children[i].parent = 0 THEN {0}
    ELSE {Children[i].parent} \cup Ancestors(Children[i].parent)

\* C15: the mesh is a single ownership tree: every segment of a build is a
\* descendant of that build's root group, and each forearm is a descendant
\* of its own upper arm's group and not a direct child of the root.
C15_SingleOwnershipTree ==
    Built =>
        /\ \A i \in 1..Len(Children) :
              Children[i].parent \in 0..(i - 1) /\ 0 \in Ancestors(i)
        /\ \A i \in UpperGroups :
              /\ Children[i + 1].name = "upperArm" /\ Children[i + 1].parent = i
              /\ Children[i + 3].name = "lowerArm"
              /\ i \in Ancestors(i + 3)
              /\ Children[i + 3].parent # 0
        /\ Cardinality({i \in 1..Len(Children) : Children[i].name = "lowerArm"})
              = Cardinality(UpperGroups)

C15_Witness ==
    /\ Built
    /\ Cardinality(UpperGroups) = 2
    /\ \E i \in UpperGroups : Children[i].x < 0 /\ Ancestors(i + 3) = {i + 2, i, 0}
    /\ "sleeve" \notin DOMAIN props[1].m


\* the environment holds both a URL and a key; the stored item holds both
EnvConfigured == env.url # "" /\ env.key # ""
StoredConfigured ==
    stored # None /\ stored[1].parses /\ stored[1].url # "" /\ stored[1].key # ""

\* C20: initSupabase chooses its configuration in a fixed order: the
\* environment variables whenever both URL and key are present, otherwise
\* the localStorage configuration when storage is available and holds both,
\* otherwise it returns false and leaves the current client unchanged. (A
\* configuration that createClient rejects counts as used when the call
\* returns false with the client unchanged.)
C20_InitSupabaseOrder ==
    lastInit # None =>
        LET unchanged == ~lastInit[1].returned /\ lastInit[1].after = lastInit[1].before
        IN  IF EnvConfigured
            THEN IF createClientThrows(env.url, env.key) THEN unchanged
                 ELSE lastInit[1].returned /\ lastInit[1].after = Some(env)
            ELSE IF storageAvailable /\ StoredConfigured
            THEN IF createClientThrows(stored[1].url, stored[1].key) THEN unchanged
                 ELSE /\ lastInit[1].returned
                      /\ lastInit[1].after = Some(Config(stored[1].url, stored[1].key))
            ELSE unchanged


\* C13: users are authenticated before saveScanResult is called from the
\* results screen, so no measurement row is saved with a null user_id.
C13_NoRowWithoutUser ==
    \A i \in DOMAIN measurements : measurements[i].user_id # None

\* the last call of saveScanResult reached the database and saved the record
Saved == lastSave # None /\ (lastSave[1].fullOk \/ lastSave[1].backupOk)

\* C16: the uploads are non-blocking: whatever each upload did (URL, null or
\* throw), the insert of the main record is attempted.
C16_UploadsDoNotBlockInsert ==
    (lastSave # None /\ lastSave[1].connected) => lastSave[1].fullAttempted

C16_Witness ==
    /\ lastSave # None /\ lastSave[1].connected
    /\ lastSave[1].models.objBlob
    /\ lastSave[1].uploads["front"] = "failed"
    /\ lastSave[1].uploads["obj"] = "threw"
    /\ lastSave[1].fullOk

\* C17: the minimal insert is attempted if and only if the full insert
\* failed, both carry the same scan id, and the call returns the record
\* exactly when one of the two inserts succeeded (null when both failed).
C17_BackupIffFullFailed ==
    lastSave # None =>
        /\ lastSave[1].backupAttempted
              <=> (lastSave[1].fullAttempted /\ ~lastSave[1].fullOk)
        /\ Cardinality(lastSave[1].ids) <= 1
        /\ (lastSave[1].returned # None) <=> (lastSave[1].fullOk \/ lastSave[1].backupOk)
        /\ ~(lastSave[1].fullOk /\ lastSave[1].backupOk)

C17_Witness ==
    /\ lastSave # None
    /\ lastSave[1].fullAttempted /\ ~lastSave[1].fullOk
    /\ lastSave[1].backupAttempted /\ lastSave[1].backupOk
    /\ lastSave[1].ids = {saves}
    /\ lastSave[1].returned = Some(measurements[Len(measurements)])

\* C18: the auxiliary inserts are issued only after the main record was
\* saved, and whatever happens to them the call returns the saved record.
C18_AuxiliaryInsertsDoNotChangeResult ==
    /\ lastSave # None =>
          /\ lastSave[1].auxIssued => Saved
          /\ Saved => lastSave[1].returned = Some(measurements[Len(measurements)])
    /\ \A i \in DOMAIN measurementImages :
          \E j \in DOMAIN measurements : measurements[j].id = measurementImages[i].measurement_id
    /\ \A i \in DOMAIN measurementCalculations :
          \E j \in DOMAIN measurements :
              measurements[j].id = measurementCalculations[i].measurement_id

C18_Witness ==
    /\ Saved
    /\ lastSave[1].auxIssued /\ lastSave[1].aux = "threw"
    /\ lastSave[1].returned # None
    /\ measurementCalculations = << >>


\* C19: a handleSideCapture whose analysis fails (the awaited call rejects, or
\* stats, front image or front metadata are missing) restarts the capture:
\* when the handler finishes the step is CameraFront, frontImage and
\* sideImage are null, results is what it was, and loading is false
AnalysisFailed ==
    /\ lastAnalysis' # lastAnalysis
    /\ lastAnalysis'[1].outcome \in {"rejected", "missing"}

C19_FailedAnalysisRestartsCapture ==
    [][AnalysisFailed =>
          /\ step' = "CameraFront"
          /\ frontImage' = None
          /\ sideImage' = None
          /\ results' = results
          /\ loading' = FALSE]_vars

C19_Witness ==
    /\ lastAnalysis # None
    /\ lastAnalysis[1].outcome = "rejected"
    /\ step = "CameraFront"
    /\ frontImage = None /\ sideImage = None /\ results = None
    /\ ~loading


\* C21: without an API key analyzeBodyMeasurements makes no request and
\* resolves with the mock result named "DEMO-MODE"; with a key and an answer
\* that parses as JSON, a result that is returned carries the requested
\* model id as its model_name
C21_DemoWithoutKeyModelIdWithKey ==
    lastCall # None =>
        LET c == lastCall[1]
            r == c.returned
        IN  /\ ~c.key =>
                  /\ ~r.called
                  /\ r.settled = "resolved"
                  /\ r.result[1].model_name = "DEMO-MODE"
                  /\ \A f \in Fields \ {"chest", "waist", "hips", "inseam"} :
                         r.result[1].m[f] = MOCK_MEASUREMENT_RESULT[f]
            /\ (c.key /\ c.response.kind \in {"object", "null"} /\ r.settled = "resolved") =>
                  r.result[1].model_name = c.modelId

C21_Witness ==
    /\ lastCall # None
    /\ lastCall[1].key
    /\ lastCall[1].response.kind = "object"
    /\ lastCall[1].response.own = "some-other-model"
    /\ lastCall[1].returned.settled = "resolved"
    /\ lastCall[1].returned.result[1].model_name = "gemini-2.5-flash"


\* C22: the results shown belong together: a completion of
\* analyzeBodyMeasurements that arrives after the user left the Processing
\* step does not change the step, and when a completion shows the Results
\* step its results were computed from the stats, front image and side image
\* that are stored then
AnalysisCompleted ==
    /\ lastAnalysis' # lastAnalysis
    /\ lastAnalysis'[1].outcome \in {"resolved", "rejected"}

CompletedCall == CHOOSE p \in pending : p \notin pending'

C22_ResultsBelongTogether ==
    [][AnalysisCompleted =>
          /\ step # "Processing" => step' = step
          /\ step' = "Results" =>
                /\ stats' = Some(CompletedCall.stats)
                /\ frontImage' = Some(CompletedCall.front)
                /\ sideImage' = Some(CompletedCall.side)]_vars


\* C23: in a mounted CameraCapture at most one capture sequence is running
\* (never two countdown tick loops together), and onCapture is called at
\* most once for the photo session
C23_OneSequenceOneCapture ==
    /\ isMountedRef => Cardinality(sequences) <= 1
    /\ Len(onCaptureCalls) <= 1

\* C24: onCapture is never invoked by an unmounted CameraCapture
C24_NoCaptureAfterUnmount ==
    \A i \in DOMAIN onCaptureCalls : onCaptureCalls[i].mounted

\* C25: a started capture sequence of a CameraCapture that stays mounted
\* ends with the Start control usable again: the countdown returns to null
\* and sequenceStartedRef to false
C25_StartUsableAgain ==
    sequenceStartedRef ~> (~isMountedRef \/ (countdown = None /\ ~sequenceStartedRef))

\* C26: every acquired stream that is live and no longer in the hands of a
\* running startCamera call is the one in streamRef, and there is none while
\* the capture method is upload or after the unmount
StreamsInFlight == { q.id : q \in mediaRequests }

C26_OneLiveStream ==
    \A s \in liveStreams \ StreamsInFlight :
        s = streamRef /\ captureMethod = "camera" /\ isMountedRef

====
